---- MODULE Spec2Model ----
(***************************************************************************)
(* Frappe_Whatsapp: provider adapters (utils/providers.py), the template  *)
(* sync endpoint fetch() (doctype/whatsapp_templates) and media retrieval  *)
(* (utils/webhook.py).                                                     *)
(*                                                                         *)
(* Python dicts are records whose DOMAIN is the set of keys present, so    *)
(* d.get(k, default) is Get(d, k, default) and d[k] on a missing key is a  *)
(* KeyError.  Python None in a string-valued position is the value None.   *)
(***************************************************************************)
EXTENDS Integers, Sequences, FiniteSets, TLC

VARIABLES
    settings,      \* the WhatsApp Settings document
    upstream,      \* what the provider answers to GET .../message_templates | /templates
    store,         \* WhatsApp Templates rows as the current transaction sees them
    committed,     \* WhatsApp Templates rows that are committed
    log,           \* WhatsApp Notification Log rows inserted in the current transaction
    net,           \* outbound HTTP requests issued by the current call
    pc,            \* position of the current call
    normalized_templates, \* fetch(): the list returned by fetch_templates()
    idx,           \* fetch(): index of the next template_data of the loop
    result,        \* how the last call ended
    snap,          \* committed rows at the end of the previous fetch() run
    again,         \* the current fetch() run repeats the previous one (same settings, same upstream)
    data,          \* send(): the caller's request dict
    template_name, \* send(): the template_name argument
    sendResp,      \* what the provider answers to POST .../messages
    parsed_id,     \* how get_message_id_from_provider_response(raw_response) ended
    media_id,      \* get_media_asset(): the media_id argument
    meta_answer,   \* what the provider answers to GET <base_url><media_id>/
    content_answer \* what is answered to GET <media url>

vars == <<settings, upstream, store, committed, log, net, pc, normalized_templates,
          idx, result, snap, again, data, template_name, sendResp, parsed_id,
          media_id, meta_answer, content_answer>>

syncVars == <<upstream, store, committed, normalized_templates, idx, snap, again>>
sendVars == <<data, template_name, sendResp, parsed_id>>
mediaVars == <<media_id, meta_answer, content_answer>>

(***************************************************************************)
(* Bounds                                                                  *)
(***************************************************************************)
MaxTemplates == 2      \* longest upstream template list

None == "None"

Get(d, k, dflt) == IF k \in DOMAIN d THEN d[k] ELSE dflt

RECURSIVE Join(_, _)
Join(sep, s) ==
    IF s = <<>> THEN ""
    ELSE IF Len(s) = 1 THEN s[1]
    ELSE s[1] \o sep \o Join(sep, Tail(s))

\* json.dumps: the payload becomes a text; the text is kept as the value it encodes
Dumps(v) == [json_text |-> v]

(***************************************************************************)
(* Upstream fixtures: raw templates as the providers send them             *)
(***************************************************************************)
\* a JSON value that is a list, one that is a number, and one that is a string
JList(s) == [list |-> s]
JNum(n) == [num |-> n]
JStr(t) == [str |-> t]
IsList(v) == "list" \in DOMAIN v
JTruthy(v) == IF IsList(v) THEN v.list # <<>> ELSE v.num # 0

\* str(val) for val in a list of JSON strings
Strs(s) == [k \in 1..Len(s) |-> s[k].str]

\* language codes, as the sequences of their characters
LangEnUnderscoreUS == <<"e", "n", "_", "U", "S">>
LangEnHyphenUS == <<"e", "n", "-", "U", "S">>
LangHi == <<"h", "i">>
LangEn == <<"e", "n">>

BodySam == [type |-> "BODY", text |-> "Hi {{1}}", example |-> [body_text |-> JList(<<JList(<<JStr("Sam")>>)>>)]]
BodyTwoSets == [type |-> "BODY", text |-> "Order {{1}} {{2}}",
                example |-> [body_text |-> JList(<<JList(<<JStr("A1"), JStr("B2")>>),
                                                   JList(<<JStr("C3")>>)>>)]]
BodyPlain == [type |-> "BODY", text |-> "Hello"]
BodyEmptyExample == [type |-> "BODY", text |-> "Hey {{1}}",
                     example |-> [body_text |-> JList(<<JList(<<>>)>>)]]
HeaderText == [type |-> "HEADER", format |-> "TEXT", text |-> "Dear {{1}}",
               example |-> [header_text |-> JList(<<"Ann", "Bob">>)]]
HeaderBadExample == [type |-> "HEADER", format |-> "TEXT", text |-> "Dear {{1}}",
                     example |-> [header_text |-> JNum(7)]]
HeaderImage == [type |-> "HEADER", format |-> "IMAGE",
                example |-> [header_handle |-> <<"h:1">>]]
Footer == [type |-> "FOOTER", text |-> "Bye"]
Buttons == [type |-> "BUTTONS", buttons |-> <<"QUICK_REPLY">>]
Carousel == [type |-> "CAROUSEL", cards |-> <<"c1">>]
NoType == [text |-> "stray"]

RawFull == [name |-> "t1", id |-> "m-1", status |-> "APPROVED",
            language |-> LangEnUnderscoreUS,
            category |-> "UTILITY", components |-> <<HeaderText, BodySam, Footer>>]
RawBodyOnly == [name |-> "t1", template_id |-> "e-1", status |-> "PENDING",
                language |-> LangEnHyphenUS,
                category |-> "UTILITY", components |-> <<BodyEmptyExample>>]
RawImage == [name |-> "t2", id |-> "m-2", status |-> "APPROVED", language |-> LangHi,
             category |-> "MARKETING",
             components |-> <<HeaderImage, Carousel, BodyTwoSets, Buttons>>]
RawNoType == [name |-> "t2", id |-> "m-3", status |-> "APPROVED", language |-> LangEn,
              category |-> "UTILITY", components |-> <<BodyPlain, NoType>>]
RawBadExample == [name |-> "t3", template_id |-> "e-3", status |-> "REJECTED",
                  language |-> LangEn,
                  category |-> "UTILITY", components |-> <<BodyPlain, HeaderBadExample>>]

RawTemplates == {RawFull, RawBodyOnly, RawImage, RawNoType, RawBadExample}

RECURSIVE SeqsUpTo(_, _)
SeqsUpTo(S, n) ==
    IF n = 0 THEN {<<>>}
    ELSE LET shorter == SeqsUpTo(S, n - 1)
         IN shorter \cup {Append(s, x) : s \in {t \in shorter : Len(t) = n - 1}, x \in S}

\* an HTTP answer: received = a response came back (frappe.flags.integration_request is it),
\* ok = 2xx; the body is JSON ([json |-> value]) or not ([text |-> ...])
OkJson(j) == [received |-> TRUE, ok |-> TRUE, body |-> [json |-> j]]
Rejected(j) == [received |-> TRUE, ok |-> FALSE, body |-> [json |-> j]]
RejectedText == [received |-> TRUE, ok |-> FALSE, body |-> [text |-> "<html>502</html>"]]
TransportFailure == [received |-> FALSE, ok |-> FALSE, body |-> [text |-> ""]]

MetaTemplateError == [error |-> [message |-> "Invalid OAuth access token.",
                                 error_user_title |-> "Auth"]]
ExotelTemplateError == [message |-> "Unauthorized"]

TemplateAnswers ==
    {OkJson([data |-> l]) : l \in SeqsUpTo(RawTemplates, MaxTemplates)}
    \cup {OkJson([paging |-> "none"]), Rejected(MetaTemplateError),
          Rejected(ExotelTemplateError), RejectedText, TransportFailure}


(***************************************************************************)
(* Settings fixtures (WhatsApp Settings single document)                   *)
(***************************************************************************)
SettingsMeta == [provider |-> "Meta", business_id |-> "B1", waba_id |-> None,
                 from_number |-> None, status_callback_url |-> None]
SettingsExotel == [provider |-> "Exotel", business_id |-> None, waba_id |-> "W1",
                   from_number |-> "+911", status_callback_url |-> "https://cb"]
SettingsAcme == [provider |-> "Acme", business_id |-> "B1", waba_id |-> "W1",
                 from_number |-> "+911", status_callback_url |-> None]
\* a settings object that carries no "provider" key at all
SettingsNoProviderKey == [business_id |-> "B1", waba_id |-> None,
                          from_number |-> None, status_callback_url |-> None]
SettingsMetaNoBusiness == [provider |-> "Meta", business_id |-> None, waba_id |-> None,
                           from_number |-> None, status_callback_url |-> None]
SettingsExotelNoWaba == [provider |-> "Exotel", business_id |-> None, waba_id |-> None,
                         from_number |-> "+911", status_callback_url |-> None]
SettingsExotelNoFrom == [provider |-> "Exotel", business_id |-> None, waba_id |-> "W1",
                         from_number |-> None, status_callback_url |-> None]

SyncSettings == {SettingsMeta, SettingsExotel, SettingsAcme, SettingsNoProviderKey,
                 SettingsMetaNoBusiness, SettingsExotelNoWaba}
SendSettings == {SettingsMeta, SettingsExotel, SettingsAcme, SettingsExotelNoFrom}

\* Python truthiness of a string-or-None value
Truthy(v) == v # None /\ v # ""

(***************************************************************************)
(* Call outcomes                                                           *)
(***************************************************************************)
NoExc == [type |-> None, msg |-> None, title |-> None]
Returned(v, requests) ==
    [raised |-> FALSE, value |-> v, exc |-> NoExc, log |-> <<>>, net |-> requests]
Raised(e, rows, requests) ==
    [raised |-> TRUE, value |-> <<>>, exc |-> e, log |-> rows, net |-> requests]

\* frappe.throw(msg, title): raises frappe.ValidationError
Throw(msg, title) == [type |-> "ValidationError", msg |-> msg, title |-> title]

\* BaseProvider._log_error_and_throw: insert the log row, then throw.
\* The result is the row written and the exception that leaves the method.
LogRow(tname, error_response) ==
    [doctype |-> "WhatsApp Notification Log",
     template |-> IF Truthy(tname) THEN tname ELSE "Text Message",
     meta_data |-> Dumps(error_response)]

_log_error_and_throw(tname, error_response, error_message, error_title, requests) ==
    Raised(Throw(error_message, error_title), <<LogRow(tname, error_response)>>, requests)

\* `hasattr(frappe.flags, "integration_request") and frappe.flags.integration_request`:
\* the flag is the requests.Response of the call when one came back, and a
\* Response is truthy exactly when Response.ok (status below 400).  A call that
\* got no response leaves the flag as it was: unset, as each call modelled here
\* is the first outbound call of its request.
IntegrationRequestTruthy(answer) == answer.received /\ answer.ok

\* frappe.flags.integration_request.json(): raises JSONDecodeError on a non-JSON body
HasJson(answer) == "json" \in DOMAIN answer.body

\* str(e) of what left the try block
StrE(answer, innerError) ==
    IF ~answer.received THEN "ConnectionError"
    ELSE IF ~answer.ok THEN "HTTPError"
    ELSE innerError

EmptyDict == [x \in {} |-> None]

(***************************************************************************)
(* fetch_templates: normalisation of one upstream component / template     *)
(***************************************************************************)
\* component["type"] raises KeyError when the key is missing
ComponentKeyError(component) == "type" \notin DOMAIN component

Example(component) == Get(component, "example", EmptyDict)

StandardHeader(component) ==
    LET fmt == Get(component, "format", None)
        base == [type |-> component.type, format |-> fmt]
    IN  IF fmt = "TEXT"
        THEN LET withText == base @@ [text |-> Get(component, "text", None)]
             IN IF "header_text" \in DOMAIN Example(component)
                   /\ JTruthy(Example(component).header_text)
                THEN withText @@ [example_text |-> Example(component).header_text]
                ELSE withText
        ELSE IF fmt \in {"IMAGE", "VIDEO", "DOCUMENT"}
                /\ "header_handle" \in DOMAIN Example(component)
                /\ Example(component).header_handle # <<>>
        THEN base @@ [example_handle |-> Example(component).header_handle]
        ELSE base

StandardBody(component) ==
    LET base == [type |-> component.type, text |-> Get(component, "text", None)]
    IN  IF "body_text" \in DOMAIN Example(component) /\ JTruthy(Example(component).body_text)
        THEN base @@ [example_body_text |-> Example(component).body_text]
        ELSE base

\* the components one upstream component contributes to normalized_template["components"]:
\* a component goes through whatever its type, only the keys copied differ
\* (the loop of ExotelProvider.fetch_templates, lines 224-244, is the same text)
StandardComponent(component) ==
    IF component.type = "HEADER" THEN <<StandardHeader(component)>>
    ELSE IF component.type = "BODY" THEN <<StandardBody(component)>>
    ELSE IF component.type = "FOOTER"
    THEN <<[type |-> component.type, text |-> Get(component, "text", None)]>>
    ELSE IF component.type = "BUTTONS"
    THEN <<[type |-> component.type, buttons |-> Get(component, "buttons", <<>>)]>>
    ELSE <<[type |-> component.type]>>

RECURSIVE StandardComponents(_)
StandardComponents(components) ==
    IF components = <<>> THEN <<>>
    ELSE StandardComponent(Head(components)) \o StandardComponents(Tail(components))

NormalizeTemplate(tpl, idKey) ==
    [name |-> Get(tpl, "name", None),
     id |-> Get(tpl, idKey, None),
     status |-> Get(tpl, "status", None),
     language_code |-> Get(tpl, "language", None),
     category |-> Get(tpl, "category", None),
     components |-> StandardComponents(Get(tpl, "components", <<>>))]

TemplateKeyError(tpl) ==
    \E i \in 1..Len(Get(tpl, "components", <<>>)) : ComponentKeyError(tpl.components[i])

\* the loop over raw_response.get("data", []): the first component without a
\* "type" raises KeyError out of the loop, whatever was normalised before it
AnyKeyError(templates) == \E i \in 1..Len(templates) : TemplateKeyError(templates[i])

NormalizeAll(templates, idKey) ==
    [i \in 1..Len(templates) |-> NormalizeTemplate(templates[i], idKey)]


(***************************************************************************)
(* fetch_templates of the two adapters                                     *)
(***************************************************************************)
TemplatesRequest(provider) == <<[method |-> "GET", endpoint |-> provider, payload |-> "templates"]>>

\* raw_response.get("data", [])
DataOf(answer) == Get(answer.body.json, "data", <<>>)

\* the try block ran to its return statement
FetchTrySucceeds(answer) == answer.ok /\ ~AnyKeyError(DataOf(answer))

MetaFetchTemplates(s, answer) ==
    IF ~Truthy(s.business_id)
    THEN Raised(Throw("Meta Business ID is not set in WhatsApp Settings. Cannot fetch templates.",
                      None), <<>>, <<>>)
    ELSE IF FetchTrySucceeds(answer)
    THEN Returned(NormalizeAll(DataOf(answer), "id"), TemplatesRequest("Meta"))
    ELSE LET str_e == StrE(answer, "'type'")
             parsed == IntegrationRequestTruthy(answer) /\ HasJson(answer)
             error_response == IF parsed THEN answer.body.json ELSE EmptyDict
             res == Get(error_response, "error", EmptyDict)
             error_message == Get(res, "error_user_msg", Get(res, "message", str_e))
             error_title == Get(res, "error_user_title", "Error")
         IN _log_error_and_throw("Template Fetch", error_response, error_message,
                                 error_title, TemplatesRequest("Meta"))

ExotelFetchTemplates(s, answer) ==
    IF ~Truthy(s.waba_id)
    THEN Raised(Throw("Exotel WhatsApp Business Account ID (WABA ID) is not set in WhatsApp Settings. Cannot fetch templates.",
                      None), <<>>, <<>>)
    ELSE IF FetchTrySucceeds(answer)
    THEN Returned(NormalizeAll(DataOf(answer), "template_id"), TemplatesRequest("Exotel"))
    ELSE LET str_e == StrE(answer, "'type'")
             parsed == IntegrationRequestTruthy(answer) /\ HasJson(answer)
             error_response == IF parsed THEN answer.body.json ELSE EmptyDict
             error_message == Get(error_response, "message", str_e)
         IN _log_error_and_throw("Template Fetch", error_response, error_message,
                                 "Error", TemplatesRequest("Exotel"))

(***************************************************************************)
(* Registry                                                                *)
(***************************************************************************)
PROVIDER_MAP == {"Meta", "Exotel"}

get_provider_defaulting(s) ==
    LET provider_name == Get(s, "provider", "Meta")
    IN Returned(IF provider_name \in PROVIDER_MAP THEN provider_name ELSE "Meta", <<>>)

\* returns the adapter class chosen (by its name) or raises
get_provider(s) ==
    LET provider_name == Get(s, "provider", "Meta")
    IN IF provider_name \in PROVIDER_MAP
       THEN Returned(provider_name, <<>>)
       ELSE Raised(Throw("Unknown WhatsApp provider: " \o provider_name, None), <<>>, <<>>)

fetch_templates(provider, s, answer) ==
    IF provider = "Meta" THEN MetaFetchTemplates(s, answer) ELSE ExotelFetchTemplates(s, answer)

(***************************************************************************)
(* fetch(): one template_data of the loop                                  *)
(***************************************************************************)
NewDoc(name) ==
    [template_name |-> name, actual_name |-> name, status |-> None, language_code |-> None,
     category |-> None, id |-> None, header_type |-> None, header |-> None,
     footer |-> None, template |-> None, sample_values |-> None, sample |-> None]

ExistsByTemplateName(rows, name) == \E i \in 1..Len(rows) : rows[i].template_name = name

ExistsNever(rows, name) == FALSE

\* frappe.db.exists("WhatsApp Templates", {"actual_name": name})
Exists(rows, name) == \E i \in 1..Len(rows) : rows[i].actual_name = name

RowOfFirst(rows, name) == 1

\* frappe.get_doc("WhatsApp Templates", {"actual_name": name}): the first matching row
RowOf(rows, name) ==
    CHOOSE i \in 1..Len(rows) :
        /\ rows[i].actual_name = name
        /\ \A j \in 1..(i - 1) : rows[j].actual_name # name

AssignScalars(doc, template_data) ==
    [doc EXCEPT !.status = template_data.status,
                !.language_code = template_data.language_code,
                !.category = template_data.category,
                !.id = template_data.id]

ResetKeepingFooter(doc) ==
    [doc EXCEPT !.header_type = None, !.header = None,
                !.template = None, !.sample_values = None, !.sample = None]

ResetComponents(doc) ==
    [doc EXCEPT !.header_type = None, !.header = None, !.footer = None,
                !.template = None, !.sample_values = None, !.sample = None]

\* ", ".join(str(val) for val in component["example_text"]) on a value that is no list
ComponentTypeError(component) ==
    /\ Get(component, "type", None) = "HEADER"
    /\ Get(component, "format", None) = "TEXT"
    /\ "example_text" \in DOMAIN component
    /\ JTruthy(component.example_text)
    /\ ~IsList(component.example_text)

LastExampleSet(ex) == ex.list[Len(ex.list)]

\* line 267: component["example_body_text"][0]
ExampleSet(ex) == ex.list[1]

ApplyComponent(doc, component) ==
    LET type == Get(component, "type", None)
        fmt == Get(component, "format", None)
    IN  IF type = "HEADER"
        THEN LET d1 == [doc EXCEPT !.header_type = fmt]
             IN IF fmt = "TEXT"
                THEN LET d2 == [d1 EXCEPT !.header = Get(component, "text", None)]
                     IN IF "example_text" \in DOMAIN component /\ JTruthy(component.example_text)
                        THEN [d2 EXCEPT !.sample = Join(", ", component.example_text.list)]
                        ELSE d2
                ELSE d1
        ELSE IF type = "FOOTER"
        THEN [doc EXCEPT !.footer = Get(component, "text", None)]
        ELSE IF type = "BODY"
        THEN LET d1 == [doc EXCEPT !.template = Get(component, "text", None)]
                 ex == Get(component, "example_body_text", JList(<<>>))
             IN IF JTruthy(ex) /\ JTruthy(ExampleSet(ex))
                THEN [d1 EXCEPT !.sample_values = Join(",", Strs(ExampleSet(ex).list))]
                ELSE [d1 EXCEPT !.sample_values = None]
        ELSE doc

RECURSIVE ApplyComponents(_, _)
ApplyComponents(doc, components) ==
    IF components = <<>> THEN doc
    ELSE ApplyComponents(ApplyComponent(doc, Head(components)), Tail(components))

TemplateTypeError(template_data) ==
    \E i \in 1..Len(template_data.components) : ComponentTypeError(template_data.components[i])

\* lines 230-271: the document as it is handed to db_update / db_insert
Populate(doc, template_data) ==
    ApplyComponents(ResetComponents(AssignScalars(doc, template_data)), template_data.components)

\* lines 221-281: rows after the template's document was written
Upsert(rows, template_data) ==
    IF Exists(rows, template_data.name)
    THEN [rows EXCEPT ![RowOf(rows, template_data.name)] =
              Populate(rows[RowOf(rows, template_data.name)], template_data)]
    ELSE Append(rows, Populate(NewDoc(template_data.name), template_data))

CommitDeferred(working, durable) == durable

\* frappe.db.commit(): what is committed afterwards
Commit(working, durable) == working


(***************************************************************************)
(* fetch(): the whitelisted sync endpoint, as a state machine              *)
(***************************************************************************)
LocalRec ==
    [template_name |-> "T1 local", actual_name |-> "t1", status |-> "APPROVED",
     language_code |-> LangEn, category |-> "UTILITY", id |-> "old-1",
     header_type |-> "TEXT", header |-> "Old header", footer |-> "Old footer",
     template |-> "Old body", sample_values |-> "x,y", sample |-> "z"]

InitialStores == {<<>>, <<LocalRec>>}

NoResult == [kind |-> "none"]
Raising(e) == [kind |-> "raising", exc |-> e]
Ended(e) == [kind |-> "raised", exc |-> e]
Value(v) == [kind |-> "returned", value |-> v]

TypeError == [type |-> "TypeError", msg |-> "'int' object is not iterable", title |-> None]
NameError == [type |-> "NameError", msg |-> "name '_' is not defined", title |-> None]

SendIdle ==
    /\ data = EmptyDict
    /\ template_name = None
    /\ sendResp = TransportFailure
    /\ parsed_id = NoResult

MediaIdle ==
    /\ media_id = None
    /\ meta_answer = TransportFailure
    /\ content_answer = TransportFailure

InitSync ==
    /\ settings \in SyncSettings
    /\ upstream \in TemplateAnswers
    /\ store \in InitialStores
    /\ committed = store
    /\ log = <<>>
    /\ net = <<>>
    /\ pc = "idle"
    /\ normalized_templates = <<>>
    /\ idx = 1
    /\ result = NoResult
    /\ snap = <<>>
    /\ again = FALSE
    /\ SendIdle
    /\ MediaIdle

\* lines 205-216.  `_` is used at lines 215 and 285 and the module does not import it:
\* the name resolves only if the interpreter's builtins carry it (translatable).
Begin(repeat) ==
    LET p == get_provider(settings)
        f == fetch_templates(p.value, settings, upstream)
    IN  /\ again' = repeat
        /\ snap' = committed
        /\ idx' = 1
        /\ UNCHANGED <<settings, upstream, store, committed, sendVars, mediaVars>>
        /\ IF p.raised
           THEN /\ pc' = "throwing"
                /\ result' = Raising(p.exc)
                /\ log' = <<>>
                /\ net' = p.net
                /\ normalized_templates' = <<>>
           ELSE IF f.raised
           THEN /\ pc' = "throwing"
                /\ result' = Raising(f.exc)
                /\ log' = f.log
                /\ net' = f.net
                /\ normalized_templates' = <<>>
           ELSE IF f.value = <<>>
           THEN /\ log' = <<>>
                /\ net' = f.net
                /\ normalized_templates' = <<>>
                /\ \E translatable \in BOOLEAN :
                      IF translatable
                      THEN pc' = "done" /\ result' = Value([items |-> <<>>])
                      ELSE pc' = "throwing" /\ result' = Raising(NameError)
           ELSE /\ pc' = "loop"
                /\ result' = NoResult
                /\ log' = <<>>
                /\ net' = f.net
                /\ normalized_templates' = f.value

SyncStart ==
    /\ pc = "idle"
    /\ Begin(FALSE)

\* the endpoint is called once more, nothing having changed since the last run
SyncRepeat ==
    /\ pc = "done"
    /\ Begin(TRUE)

\* lines 218-283: one pass of the loop
SyncTemplate ==
    /\ pc = "loop"
    /\ idx <= Len(normalized_templates)
    /\ LET template_data == normalized_templates[idx]
       IN IF TemplateTypeError(template_data)
          THEN /\ pc' = "throwing"
               /\ result' = Raising(TypeError)
               /\ UNCHANGED <<store, committed, idx>>
          ELSE /\ store' = Upsert(store, template_data)
               /\ committed' = Commit(store', committed)
               /\ idx' = idx + 1
               /\ UNCHANGED <<pc, result>>
    /\ UNCHANGED <<settings, upstream, log, net, normalized_templates, snap, again, sendVars, mediaVars>>

\* line 285
SyncReturn ==
    /\ pc = "loop"
    /\ idx > Len(normalized_templates)
    /\ \E translatable \in BOOLEAN :
          IF translatable
          THEN /\ pc' = "done"
               /\ result' = Value([text |-> "Successfully fetched templates from the configured WhatsApp provider"])
          ELSE /\ pc' = "throwing"
               /\ result' = Raising(NameError)
    /\ UNCHANGED <<settings, upstream, store, committed, log, net, normalized_templates,
                   idx, snap, again, sendVars, mediaVars>>

\* an exception leaves the whitelisted endpoint: the request's open transaction
\* is rolled back, what was committed stays
SyncPropagate ==
    /\ pc = "throwing"
    /\ pc' = "done"
    /\ result' = Ended(result.exc)
    /\ store' = committed
    /\ log' = <<>>
    /\ UNCHANGED <<settings, upstream, committed, net, normalized_templates, idx, snap,
                   again, sendVars, mediaVars>>

\* the request is over; the next one starts with nothing left of it
SyncFinish ==
    /\ pc = "done"
    /\ pc' = "idle"
    /\ result' = NoResult
    /\ net' = <<>>
    /\ normalized_templates' = <<>>
    /\ idx' = 1
    /\ snap' = <<>>
    /\ again' = FALSE
    /\ UNCHANGED <<settings, upstream, store, committed, log, sendVars, mediaVars>>

\* between two calls the operator reconfigures the provider
SettingsChange ==
    /\ pc = "idle"
    /\ settings' \in SyncSettings
    /\ UNCHANGED <<upstream, store, committed, log, net, pc, normalized_templates, idx,
                   result, snap, again, sendVars, mediaVars>>

\* between two calls the upstream data changes
UpstreamChange ==
    /\ pc = "idle"
    /\ upstream' \in TemplateAnswers
    /\ UNCHANGED <<settings, store, committed, log, net, pc, normalized_templates, idx,
                   result, snap, again, sendVars, mediaVars>>

NextSync ==
    \/ SyncStart
    \/ SyncRepeat
    \/ SyncTemplate
    \/ SyncReturn
    \/ SyncPropagate
    \/ SyncFinish
    \/ SettingsChange
    \/ UpstreamChange

Spec == InitSync /\ [][NextSync]_vars


(***************************************************************************)
(* Properties of the sync endpoint                                         *)
(***************************************************************************)
ProviderName == Get(settings, "provider", "Meta")

\* the configured adapter exists and has the account id its fetch_templates asks for
FetchConfigured ==
    \/ ProviderName = "Meta" /\ Truthy(settings.business_id)
    \/ ProviderName = "Exotel" /\ Truthy(settings.waba_id)

IdKey == IF ProviderName = "Meta" THEN "id" ELSE "template_id"

HasRawComponent(raw, type) ==
    \E i \in 1..Len(Get(raw, "components", <<>>)) : Get(raw.components[i], "type", None) = type

\* C1: a run of fetch() that repeats the previous run (same settings, same
\* upstream answer) ends with exactly the rows the previous run ended with:
\* no row added, no field of any row changed.
SyncIdempotent ==
    (pc = "done" /\ again) => (committed = snap /\ store = snap)

SyncIdempotentWitness ==
    /\ pc = "done"
    /\ again
    /\ result.kind = "returned"
    /\ Len(normalized_templates) >= 2
    /\ Len(committed) >= 2

\* C2: once the loop has processed template idx-1, each component-derived
\* field of that template's row holds a value only if the upstream template
\* has the component the field comes from.
ResetInvariant ==
    idx > 1 =>
        LET raw == DataOf(upstream)[idx - 1]
            doc == store[RowOf(store, raw.name)]
        IN  /\ Exists(store, raw.name)
            /\ doc.footer # None => HasRawComponent(raw, "FOOTER")
            /\ doc.header_type # None => HasRawComponent(raw, "HEADER")
            /\ doc.header # None => HasRawComponent(raw, "HEADER")
            /\ doc.sample # None => HasRawComponent(raw, "HEADER")
            /\ doc.template # None => HasRawComponent(raw, "BODY")
            /\ doc.sample_values # None => HasRawComponent(raw, "BODY")

\* the row that had a footer before the run has none after a footer-less template
ResetInvariantWitness ==
    /\ idx > 1
    /\ ~HasRawComponent(DataOf(upstream)[idx - 1], "FOOTER")
    /\ \E i \in 1..Len(store) :
          /\ store[i].template_name = LocalRec.template_name
          /\ store[i].actual_name = DataOf(upstream)[idx - 1].name
          /\ store[i].footer = None

\* C3: the rows never hold two records of one template name; as a row carries
\* no provider, that is one record per (provider, name) whichever provider
\* was configured in each run.
NoDuplicateTemplates ==
    /\ \A i, j \in 1..Len(store) : store[i].actual_name = store[j].actual_name => i = j
    /\ \A i, j \in 1..Len(committed) :
          committed[i].actual_name = committed[j].actual_name => i = j

\* a row that existed before was updated in place by a run under Exotel, next
\* to a row a run under Meta created
NoDuplicateTemplatesWitness ==
    /\ Len(committed) = 2
    /\ \E i, j \in 1..Len(committed) :
          /\ committed[i].template_name = LocalRec.template_name
          /\ committed[i].id = "e-1"
          /\ committed[j].id = "m-2"

\* C6: when the upstream call fails, fetch_templates() gives an empty list and
\* fetch() ends by returning the empty result, not by an exception.
FetchFailureYieldsEmpty ==
    (pc = "done" /\ FetchConfigured /\ ~upstream.ok) =>
        (result.kind = "returned" /\ result.value = [items |-> <<>>])

\* C7: with a provider name outside PROVIDER_MAP the call ends in the
\* configuration error, no adapter ran and no request went out.
RegistryFailsClosed ==
    (pc # "idle" /\ ProviderName \notin {"Meta", "Exotel"}) =>
        /\ result.kind \in {"raising", "raised"}
        /\ result.exc = Throw("Unknown WhatsApp provider: " \o ProviderName, None)
        /\ net = <<>>
        /\ normalized_templates = <<>>
        /\ log = <<>>
        /\ store = snap

RegistryFailsClosedWitness ==
    /\ pc = "done"
    /\ settings = SettingsAcme
    /\ result.kind = "raised"

\* C9: when the loop fails at template idx, every template before it is in the
\* committed rows with the values this run gave it.
LastBefore(j, k) ==
    \A m \in (j + 1)..(k - 1) : normalized_templates[m].name # normalized_templates[j].name

PartialSuccess ==
    (pc = "done" /\ result.kind = "raised" /\ result.exc = TypeError) =>
        \A j \in 1..(idx - 1) :
            LET t == normalized_templates[j]
            IN  /\ Exists(committed, t.name)
                /\ LastBefore(j, idx) =>
                      LET doc == committed[RowOf(committed, t.name)]
                      IN  /\ doc.status = t.status
                          /\ doc.id = t.id
                          /\ doc.language_code = t.language_code
                          /\ doc.category = t.category

PartialSuccessWitness ==
    /\ pc = "done"
    /\ result.kind = "raised"
    /\ result.exc = TypeError
    /\ idx = 2
    /\ committed # snap

\* C10: a component of unknown type or without a type does not make the fetch
\* fail: every template of the answer whose components are all well-formed is
\* in the returned list, normalised.
WellFormed(raw) ==
    \A i \in 1..Len(Get(raw, "components", <<>>)) :
        Get(raw.components[i], "type", None) \in {"HEADER", "BODY", "FOOTER", "BUTTONS"}

MalformedEntrySkipped ==
    (pc # "idle" /\ FetchConfigured /\ upstream.ok) =>
        \A i \in 1..Len(DataOf(upstream)) :
            WellFormed(DataOf(upstream)[i]) =>
                \E j \in 1..Len(normalized_templates) :
                    normalized_templates[j] = NormalizeTemplate(DataOf(upstream)[i], IdKey)


\* the template names of the fetched list
FetchedNames == {normalized_templates[j].name : j \in 1..Len(normalized_templates)}

\* C18: during and after a run of fetch() every row that was there before the
\* run is still there, a row whose template name is not in the fetched list is
\* exactly what it was, and a run whose fetch gave an empty list has written
\* nothing.
AbsentRowsUntouched ==
    pc \in {"loop", "throwing", "done"} =>
        /\ Len(store) >= Len(snap) /\ Len(committed) >= Len(snap)
        /\ \A i \in 1..Len(snap) :
              /\ store[i].actual_name = snap[i].actual_name
              /\ committed[i].actual_name = snap[i].actual_name
              /\ snap[i].actual_name \notin FetchedNames =>
                    (store[i] = snap[i] /\ committed[i] = snap[i])
        /\ normalized_templates = <<>> => (store = snap /\ committed = snap)

\* a run wrote other templates and left the row of a template removed upstream
AbsentRowsUntouchedWitness ==
    /\ pc = "done"
    /\ result.kind = "returned"
    /\ normalized_templates # <<>>
    /\ committed # snap
    /\ \E i \in 1..Len(snap) :
          /\ snap[i].actual_name \notin FetchedNames
          /\ committed[i] = snap[i]

\* the Meta adapter's list is being, or has been, written to the rows
MetaNormalized == ProviderName = "Meta" /\ pc = "loop"

\* component c of upstream template i is a BODY with a non-empty body_text example
BodyWithExample(i, c) ==
    LET component == DataOf(upstream)[i].components[c]
    IN  /\ Get(component, "type", None) = "BODY"
        /\ "body_text" \in DOMAIN Example(component)
        /\ Example(component).body_text.list # <<>>

\* C16 as stated: the example of a normalized Body component is the first inner
\* sequence of body_text, and language_code is the upstream language.
BodyExampleAsStated ==
    MetaNormalized =>
        \A i \in 1..Len(DataOf(upstream)) :
            /\ normalized_templates[i].language_code = DataOf(upstream)[i].language
            /\ \A c \in 1..Len(DataOf(upstream)[i].components) :
                  BodyWithExample(i, c) =>
                      normalized_templates[i].components[c].example_body_text =
                          Example(DataOf(upstream)[i].components[c]).body_text.list[1]

\* the last BODY component of the template written last
LastBody(raw, c) ==
    /\ Get(raw.components[c], "type", None) = "BODY"
    /\ \A k \in (c + 1)..Len(raw.components) : Get(raw.components[k], "type", None) # "BODY"

\* C16: the normalized Body component carries the whole nested body_text and
\* language_code is the upstream language; the first inner sequence is what
\* fetch() writes, joined with commas, to sample_values of the template's row
\* (later inner sequences appear nowhere in it).
BodyExampleFirstSet ==
    /\ MetaNormalized =>
           \A i \in 1..Len(DataOf(upstream)) :
               /\ normalized_templates[i].language_code = DataOf(upstream)[i].language
               /\ \A c \in 1..Len(DataOf(upstream)[i].components) :
                     BodyWithExample(i, c) =>
                         normalized_templates[i].components[c].example_body_text =
                             Example(DataOf(upstream)[i].components[c]).body_text
    /\ (ProviderName = "Meta" /\ idx > 1) =>
           LET raw == DataOf(upstream)[idx - 1]
           IN  \A c \in 1..Len(raw.components) :
                   (LastBody(raw, c) /\ "body_text" \in DOMAIN Example(raw.components[c])
                    /\ Example(raw.components[c]).body_text.list # <<>>) =>
                       \E r \in 1..Len(store) :
                           /\ store[r].actual_name = raw.name
                           /\ LET first == Example(raw.components[c]).body_text.list[1].list
                              IN  IF first = <<>> THEN store[r].sample_values = None
                                  ELSE store[r].sample_values = Join(",", Strs(first))

BodyExampleFirstSetWitness ==
    /\ ProviderName = "Meta" /\ pc = "loop" /\ idx > 1
    /\ DataOf(upstream)[idx - 1] = RawImage
    /\ normalized_templates[idx - 1].components[3].example_body_text =
           JList(<<JList(<<JStr("A1"), JStr("B2")>>), JList(<<JStr("C3")>>)>>)
    /\ \E r \in 1..Len(store) :
          store[r].actual_name = "t2" /\ store[r].sample_values = "A1,B2"

\* lang_code.replace("-", "_") of WhatsAppTemplates.validate
ReplaceHyphens(text) == [k \in 1..Len(text) |-> IF text[k] = "-" THEN "_" ELSE text[k]]

HasHyphen(text) == \E k \in 1..Len(text) : text[k] = "-"

\* C17: the language_code of every normalized template and of every row
\* fetch() has written has its hyphens replaced by underscores.
LanguageCodeUnderscored ==
    /\ pc = "loop" =>
           \A i \in 1..Len(normalized_templates) :
               /\ ~HasHyphen(normalized_templates[i].language_code)
               /\ normalized_templates[i].language_code =
                      ReplaceHyphens(DataOf(upstream)[i].language)
    /\ \A r \in 1..Len(committed) : ~HasHyphen(committed[r].language_code)

(***************************************************************************)
(* send() of the two adapters                                              *)
(***************************************************************************)
StandardMessageResponse(message_id, status, raw_response, error_message) ==
    [message_id |-> message_id, status |-> status, raw_response |-> raw_response,
     error_message |-> error_message]

\* answers to POST .../messages
MetaAccepted == [messaging_product |-> "whatsapp", messages |-> <<[id |-> "wamid.1"]>>]
MetaNoMessages == [messaging_product |-> "whatsapp"]
MetaEmptyMessages == [messaging_product |-> "whatsapp", messages |-> <<>>]
MetaMessageNoId == [messaging_product |-> "whatsapp", messages |-> <<[message_status |-> "accepted"]>>]
ExotelAccepted == [response |-> [whatsapp |-> [messages |-> <<[data |-> [sid |-> "SM123"]]>>]]]
ExotelAcceptedTwo == [response |-> [whatsapp |-> [messages |->
                          <<[data |-> [sid |-> "SM200"]], [data |-> [sid |-> "SM201"]]>>]]]
ExotelNoResponse == [request_id |-> "r1"]
ExotelEmptyMessages == [response |-> [whatsapp |-> [messages |-> <<>>]]]
ExotelNoData == [response |-> [whatsapp |-> [messages |-> <<[code |-> "202"]>>]]]
MetaSendError == [error |-> [message |-> "Unsupported post request.",
                             error_user_title |-> "Error"]]
ExotelSendError == [message |-> "Invalid from number"]

SendAnswers ==
    {OkJson(MetaAccepted), OkJson(MetaNoMessages), OkJson(MetaEmptyMessages),
     OkJson(MetaMessageNoId), OkJson(ExotelAccepted), OkJson(ExotelAcceptedTwo),
     OkJson(ExotelNoResponse),
     OkJson(ExotelEmptyMessages), OkJson(ExotelNoData), Rejected(MetaSendError),
     Rejected(ExotelSendError), RejectedText, TransportFailure}

\* the caller's request dicts
DataText == [to |-> "+9199", messaging_product |-> "whatsapp", type |-> "text"]
DataNoTo == [messaging_product |-> "whatsapp", type |-> "text"]
SendRequests == {DataText, DataNoTo}
TemplateNames == {None, "order_update"}

Post(provider, payload) == <<[method |-> "POST", endpoint |-> provider, payload |-> Dumps(payload)]>>

\* d without key k (dict.pop)
Without(d, k) == [x \in DOMAIN d \ {k} |-> d[x]]

MetaSend(s, d, tname, answer) ==
    LET requests == Post("Meta", d)
        messages == Get(answer.body.json, "messages", <<EmptyDict>>)
    IN  IF answer.ok /\ messages # <<>>
        THEN Returned(StandardMessageResponse(Get(messages[1], "id", None), "sent",
                                              answer.body.json, None), requests)
        ELSE LET str_e == StrE(answer, "list index out of range")
                 parsed == IntegrationRequestTruthy(answer) /\ HasJson(answer)
                 error_response == IF parsed THEN answer.body.json ELSE EmptyDict
                 res == Get(error_response, "error", EmptyDict)
                 error_message == Get(res, "Error", Get(res, "message", str_e))
                 error_title == Get(res, "error_user_title", "Error")
             IN _log_error_and_throw(tname, error_response, error_message, error_title,
                                     requests)

ExotelPayload(s, d) ==
    LET base == [whatsapp |-> [messages |-> <<[from |-> s.from_number, to |-> d.to,
                                               content |-> Without(d, "to")]>>]]
    IN IF Truthy(s.status_callback_url)
       THEN base @@ [status_callback |-> s.status_callback_url]
       ELSE base

ExotelMessageIdTopLevel(message) == Get(message, "id", None)

\* line 178: ....get("messages", [{}])[0].get("data", {}).get("sid")
ExotelMessageId(message) == Get(Get(message, "data", EmptyDict), "sid", None)

ExotelSend(s, d, tname, answer) ==
    IF ~Truthy(s.from_number)
    THEN Raised(Throw("Exotel 'From' number is not set in WhatsApp Settings. Cannot send message.",
                      None), <<>>, <<>>)
    ELSE IF "to" \notin DOMAIN d
    THEN Raised([type |-> "KeyError", msg |-> "'to'", title |-> None], <<>>, <<>>)
    ELSE LET requests == Post("Exotel", ExotelPayload(s, d))
             messages == Get(Get(Get(answer.body.json, "response", EmptyDict),
                                 "whatsapp", EmptyDict), "messages", <<EmptyDict>>)
         IN  IF answer.ok /\ messages # <<>>
             THEN Returned(StandardMessageResponse(ExotelMessageId(messages[1]), "sent",
                                                   answer.body.json, None), requests)
             ELSE LET str_e == StrE(answer, "list index out of range")
                      parsed == IntegrationRequestTruthy(answer) /\ HasJson(answer)
                      error_response == IF parsed THEN answer.body.json ELSE EmptyDict
                      error_message == Get(error_response, "message", str_e)
                  IN _log_error_and_throw(tname, error_response, error_message, "Error",
                                          requests)

\* the caller's dict after the call: ExotelProvider.send pops "to" out of it
DataAfterSend(provider, s, d) ==
    IF provider = "Exotel" /\ Truthy(s.from_number) /\ "to" \in DOMAIN d
    THEN Without(d, "to")
    ELSE d

send(provider, s, d, tname, answer) ==
    IF provider = "Meta" THEN MetaSend(s, d, tname, answer) ELSE ExotelSend(s, d, tname, answer)

(***************************************************************************)
(* A caller sending one message through the configured adapter             *)
(***************************************************************************)
SyncIdle ==
    /\ upstream = TransportFailure
    /\ store = <<>>
    /\ committed = <<>>
    /\ normalized_templates = <<>>
    /\ idx = 1
    /\ snap = <<>>
    /\ again = FALSE

InitSend ==
    /\ settings \in SendSettings
    /\ data \in SendRequests
    /\ template_name \in TemplateNames
    /\ sendResp \in SendAnswers
    /\ parsed_id = NoResult
    /\ log = <<>>
    /\ net = <<>>
    /\ pc = "idle"
    /\ result = NoResult
    /\ SyncIdle
    /\ MediaIdle

\* get_provider(settings).send(data, template_name)
SendCall ==
    /\ pc = "idle"
    /\ LET p == get_provider(settings)
           r == send(p.value, settings, data, template_name, sendResp)
       IN  IF p.raised
           THEN /\ pc' = "throwing"
                /\ result' = Raising(p.exc)
                /\ log' = <<>>
                /\ net' = p.net
                /\ data' = data
           ELSE /\ data' = DataAfterSend(p.value, settings, data)
                /\ net' = r.net
                /\ log' = r.log
                /\ IF r.raised
                   THEN pc' = "throwing" /\ result' = Raising(r.exc)
                   ELSE pc' = "done" /\ result' = Value(r.value)
    /\ UNCHANGED <<settings, template_name, sendResp, parsed_id, syncVars, mediaVars>>

\* the exception reaches the caller
SendPropagate ==
    /\ pc = "throwing"
    /\ pc' = "done"
    /\ result' = Ended(result.exc)
    /\ UNCHANGED <<settings, log, net, sendVars, syncVars, mediaVars>>

\* the next message: another request, template name and upstream answer
SendNext ==
    /\ pc = "done"
    /\ pc' = "idle"
    /\ result' = NoResult
    /\ log' = <<>>
    /\ net' = <<>>
    /\ data' \in SendRequests
    /\ template_name' \in TemplateNames
    /\ sendResp' \in SendAnswers
    /\ parsed_id' = NoResult
    /\ UNCHANGED <<settings, syncVars, mediaVars>>

\* frappe.log_error(message, title): an Error Log row
ErrorLogRow(title) == [doctype |-> "Error Log", method |-> title]

\* response[k1][k2]["messages"][0]... of lines 294 and 305: the first message,
\* or a KeyError / IndexError
HasFirstMessage(container) ==
    "messages" \in DOMAIN container /\ container.messages # <<>>

ParseFailure(providerName, response) ==
    Raised(Throw("Failed to parse " \o providerName \o " response for message ID.", None),
           <<ErrorLogRow(providerName \o " Response Parsing Error")>>, <<>>)

\* get_message_id_from_provider_response(response); frappe.log_warn is looked
\* up on the frappe module at call time: logWarnExists says whether it is there
get_message_id_from_provider_response(provider_name, response, logWarnExists) ==
    IF provider_name = "Exotel"
    THEN IF /\ "response" \in DOMAIN response
            /\ "whatsapp" \in DOMAIN response.response
            /\ HasFirstMessage(response.response.whatsapp)
            /\ "data" \in DOMAIN response.response.whatsapp.messages[1]
            /\ "sid" \in DOMAIN response.response.whatsapp.messages[1].data
         THEN Returned(response.response.whatsapp.messages[1].data.sid, <<>>)
         ELSE ParseFailure("Exotel", response)
    ELSE IF provider_name = "Meta"
    THEN IF HasFirstMessage(response) /\ "id" \in DOMAIN response.messages[1]
         THEN Returned(response.messages[1].id, <<>>)
         ELSE ParseFailure("Meta", response)
    ELSE IF logWarnExists
    THEN Returned(None, <<>>)
    ELSE Raised([type |-> "AttributeError", msg |-> "module 'frappe' has no attribute 'log_warn'",
                 title |-> None], <<>>, <<>>)

\* the caller reads the message id out of the raw response send() returned;
\* the provider name is read from the settings document
SendParse ==
    /\ pc = "done"
    /\ result.kind = "returned"
    /\ parsed_id = NoResult
    /\ \E logWarnExists \in BOOLEAN :
           parsed_id' = [kind |-> "parsed",
                         out |-> get_message_id_from_provider_response(
                                     Get(settings, "provider", None),
                                     result.value.raw_response, logWarnExists)]
    /\ UNCHANGED <<settings, log, net, pc, result, data, template_name, sendResp,
                   syncVars, mediaVars>>

SendSettingsChange ==
    /\ pc = "idle"
    /\ settings' \in SendSettings
    /\ UNCHANGED <<log, net, pc, result, sendVars, syncVars, mediaVars>>

NextSend ==
    \/ SendCall
    \/ SendPropagate
    \/ SendNext
    \/ SendParse
    \/ SendSettingsChange

SpecSend == InitSend /\ [][NextSend]_vars

(***************************************************************************)
(* Properties of send()                                                    *)
(***************************************************************************)
Failing == pc = "throwing" \/ (pc = "done" /\ result.kind = "raised")

\* C4: when the upstream rejects the request or the transport fails, send()
\* does not raise: it returns a result with status failed and an error message.
SendNeverRaises ==
    (pc = "done" /\ net # <<>> /\ ~sendResp.ok) =>
        /\ result.kind = "returned"
        /\ result.value.status = "failed"
        /\ result.value.error_message # None

\* C5: a send() whose request failed upstream has written exactly one
\* WhatsApp Notification Log row holding the provider's error payload, and has
\* written it before the failure reaches the caller; a send() that returned
\* wrote none.
AuditLogPerFailedSend ==
    /\ (Failing /\ net # <<>>) =>
          /\ Len(log) = 1
          /\ HasJson(sendResp) => log[1].meta_data = Dumps(sendResp.body.json)
    /\ (pc = "done" /\ result.kind = "returned") => log = <<>>

\* C8: a result with status sent carries a message id.
SentCarriesMessageId ==
    (pc = "done" /\ result.kind = "returned" /\ result.value.status = "sent") =>
        result.value.message_id # None


\* the Exotel adapter posted the request and the answer is a success that
\* carries a value at response.whatsapp.messages[0].data.sid
ExotelAnswerWithSid ==
    /\ Get(settings, "provider", None) = "Exotel"
    /\ pc = "done" /\ net # <<>>
    /\ sendResp.received /\ sendResp.ok
    /\ "json" \in DOMAIN sendResp.body
    /\ "response" \in DOMAIN sendResp.body.json
    /\ "whatsapp" \in DOMAIN sendResp.body.json.response
    /\ "messages" \in DOMAIN sendResp.body.json.response.whatsapp
    /\ Len(sendResp.body.json.response.whatsapp.messages) >= 1
    /\ "data" \in DOMAIN sendResp.body.json.response.whatsapp.messages[1]
    /\ "sid" \in DOMAIN sendResp.body.json.response.whatsapp.messages[1].data

\* C13: for a successful Exotel answer carrying X at
\* response.whatsapp.messages[0].data.sid, send() returns status sent with
\* message_id X, and get_message_id_from_provider_response returns X for it.
ExotelSidExtraction ==
    ExotelAnswerWithSid =>
        LET X == sendResp.body.json.response.whatsapp.messages[1].data.sid
        IN  /\ result.kind = "returned"
            /\ result.value.status = "sent"
            /\ result.value.message_id = X
            /\ parsed_id.kind = "parsed" =>
                   (~parsed_id.out.raised /\ parsed_id.out.value = X)

ExotelSidExtractionWitness ==
    /\ ExotelAnswerWithSid
    /\ sendResp = OkJson(ExotelAcceptedTwo)
    /\ result.value.message_id = "SM200"
    /\ parsed_id.kind = "parsed"
    /\ parsed_id.out.value = "SM200"

\* a Meta send was rejected with an envelope {"error": {"message": M, ...}}
MetaRejectedWithEnvelope ==
    /\ Get(settings, "provider", None) = "Meta"
    /\ pc = "done" /\ net # <<>>
    /\ sendResp.received /\ ~sendResp.ok
    /\ "json" \in DOMAIN sendResp.body
    /\ "error" \in DOMAIN sendResp.body.json
    /\ "message" \in DOMAIN sendResp.body.json.error

\* C14: a Meta send rejected with an error envelope carrying message M returns
\* a result with status failed and error_message M; a rejection without a
\* parseable envelope returns status failed with a fallback error_message.
MetaErrorMessage ==
    /\ MetaRejectedWithEnvelope =>
           /\ result.kind = "returned"
           /\ result.value.status = "failed"
           /\ result.value.error_message = sendResp.body.json.error.message
    /\ (Get(settings, "provider", None) = "Meta" /\ pc = "done" /\ net # <<>>
        /\ ~sendResp.ok /\ "json" \notin DOMAIN sendResp.body) =>
           /\ result.kind = "returned"
           /\ result.value.status = "failed"
           /\ result.value.error_message # None

\* C19: send() leaves the caller's request dict as it was.
RequestUnchangedBySend == [][(pc = "idle" /\ pc' # "idle") => data' = data]_vars

(***************************************************************************)
(* get_media_asset() of the adapters of utils/webhook.py                   *)
(*                                                                         *)
(* A MIME type is the sequence of its characters, so that '/' in it and    *)
(* split('/') are computed on the text itself.                             *)
(***************************************************************************)
MimePng == <<"i", "m", "a", "g", "e", "/", "p", "n", "g">>
MimeTwoSlashes == <<"a", "/", "b", "/", "c">>
MimeNoSlash == <<"p", "d", "f">>
MimeTrailingSlash == <<"x", "/">>
Bin == <<"b", "i", "n">>

\* answers to the metadata request
MediaMetaAnswers ==
    {OkJson([url |-> "https://cdn/m1", mime_type |-> m, id |-> "m1"]) :
         m \in {MimePng, MimeTwoSlashes, MimeNoSlash, MimeTrailingSlash, <<>>}}
    \cup {OkJson([url |-> "https://cdn/m1", id |-> "m1"]),
          OkJson([mime_type |-> MimePng, id |-> "m1"]),
          [received |-> TRUE, ok |-> TRUE, body |-> [text |-> "<html></html>"]],
          Rejected(MetaSendError), RejectedText, TransportFailure}

\* answers to the download request
OkContent == [received |-> TRUE, ok |-> TRUE, body |-> [content |-> "bytes:m1"]]
MediaContentAnswers == {OkContent, RejectedText, TransportFailure}

MediaIds == {"m1", "m2"}
MediaSettings == {SettingsMeta, SettingsExotel}

MetadataRequest(id) == [method |-> "GET", endpoint |-> "Meta", payload |-> id]
DownloadRequest(url) == [method |-> "GET", endpoint |-> "media_url", payload |-> url]

\* s.split(sep): the pieces of s between the separators
RECURSIVE Split(_, _)
Split(s, sep) ==
    IF \A i \in 1..Len(s) : s[i] # sep THEN <<s>>
    ELSE LET k == CHOOSE i \in 1..Len(s) : s[i] = sep /\ \A j \in 1..(i - 1) : s[j] # sep
         IN <<SubSeq(s, 1, k - 1)>> \o Split(SubSeq(s, k + 1, Len(s)), sep)

FileExtensionFirstPiece(mime_type) ==
    IF \E i \in 1..Len(mime_type) : mime_type[i] = "/"
    THEN Split(mime_type, "/")[2]
    ELSE Bin

\* lines 145-147
FileExtension(mime_type) ==
    IF \E i \in 1..Len(mime_type) : mime_type[i] = "/"
    THEN Split(mime_type, "/")[Len(Split(mime_type, "/"))]
    ELSE Bin

MediaDataNeverMissing(media_data) == FALSE

\* line 137: not media_url or not mime_type
MediaDataMissing(media_data) ==
    \/ ~Truthy(Get(media_data, "url", None))
    \/ Get(media_data, "mime_type", <<>>) = <<>>

MediaAsset(file_data, mime_type, file_extension) ==
    [file_data |-> file_data, mime_type |-> mime_type, file_extension |-> file_extension]

\* MetaProvider.get_media_asset.  A body that is not JSON makes .json() raise:
\* requests' own JSONDecodeError where it is a RequestException (first except
\* clause), the standard library's otherwise (second clause); decodeIsRequest
\* says which.
MetaGetMediaAsset(s, id, metaAns, contentAns, decodeIsRequest) ==
    IF ~(metaAns.received /\ metaAns.ok) \/ (~HasJson(metaAns) /\ decodeIsRequest)
    THEN _log_error_and_throw(None, EmptyDict, "Error fetching media metadata for ID " \o id,
                              "WhatsApp Media Metadata Error", <<MetadataRequest(id)>>)
    ELSE IF ~HasJson(metaAns)
    THEN _log_error_and_throw(None, EmptyDict, "Error decoding JSON for media metadata " \o id,
                              "WhatsApp Media Metadata Error", <<MetadataRequest(id)>>)
    ELSE LET media_data == metaAns.body.json
             media_url == Get(media_data, "url", None)
             mime_type == Get(media_data, "mime_type", <<>>)
             requests == <<MetadataRequest(id), DownloadRequest(media_url)>>
         IN  IF MediaDataMissing(media_data)
             THEN _log_error_and_throw(None, media_data,
                                       "Missing media URL or MIME type for ID " \o id,
                                       "WhatsApp Media Data Missing", <<MetadataRequest(id)>>)
             ELSE IF contentAns.received /\ contentAns.ok
             THEN Returned(MediaAsset(contentAns.body.content, mime_type,
                                      FileExtension(mime_type)), requests)
             ELSE _log_error_and_throw(None, EmptyDict, "Error downloading media",
                                       "WhatsApp Media Download Error", requests)

\* ExotelProvider.get_media_asset (lines 196-218): the body is its docstring
\* and comments, so the call falls off the end and gives None
NoAsset == [none |-> None]
ExotelGetMediaAsset(s, id) == Returned(NoAsset, <<>>)

get_media_asset(provider, s, id, metaAns, contentAns, decodeIsRequest) ==
    IF provider = "Meta" THEN MetaGetMediaAsset(s, id, metaAns, contentAns, decodeIsRequest)
    ELSE ExotelGetMediaAsset(s, id)

InitMedia ==
    /\ settings \in MediaSettings
    /\ media_id \in MediaIds
    /\ meta_answer \in MediaMetaAnswers
    /\ content_answer \in MediaContentAnswers
    /\ log = <<>>
    /\ net = <<>>
    /\ pc = "idle"
    /\ result = NoResult
    /\ SyncIdle
    /\ SendIdle

\* the adapter of the configured provider is asked for the media
MediaCall ==
    /\ pc = "idle"
    /\ \E decodeIsRequest \in BOOLEAN :
       LET r == get_media_asset(settings.provider, settings, media_id, meta_answer,
                                content_answer, decodeIsRequest)
       IN  /\ net' = r.net
           /\ log' = r.log
           /\ IF r.raised
              THEN pc' = "throwing" /\ result' = Raising(r.exc)
              ELSE pc' = "done" /\ result' = Value(r.value)
    /\ UNCHANGED <<settings, mediaVars, sendVars, syncVars>>

\* the exception reaches the caller
MediaPropagate ==
    /\ pc = "throwing"
    /\ pc' = "done"
    /\ result' = Ended(result.exc)
    /\ UNCHANGED <<settings, log, net, mediaVars, sendVars, syncVars>>

\* the next media: another id, other upstream answers
MediaNext ==
    /\ pc = "done"
    /\ pc' = "idle"
    /\ result' = NoResult
    /\ log' = <<>>
    /\ net' = <<>>
    /\ media_id' \in MediaIds
    /\ meta_answer' \in MediaMetaAnswers
    /\ content_answer' \in MediaContentAnswers
    /\ UNCHANGED <<settings, sendVars, syncVars>>

MediaSettingsChange ==
    /\ pc = "idle"
    /\ settings' \in MediaSettings
    /\ UNCHANGED <<log, net, pc, result, mediaVars, sendVars, syncVars>>

NextMedia ==
    \/ MediaCall
    \/ MediaPropagate
    \/ MediaNext
    \/ MediaSettingsChange

SpecMedia == InitMedia /\ [][NextMedia]_vars


(***************************************************************************)
(* Claims on media retrieval                                               *)
(***************************************************************************)
MetaMediaCalled == settings.provider = "Meta" /\ pc # "idle"

\* the metadata request succeeded and its body carries a url and a mime_type
MetadataComplete ==
    /\ meta_answer.received /\ meta_answer.ok
    /\ "json" \in DOMAIN meta_answer.body
    /\ "url" \in DOMAIN meta_answer.body.json
    /\ "mime_type" \in DOMAIN meta_answer.body.json
    /\ meta_answer.body.json.mime_type # <<>>

DownloadSucceeded == content_answer.received /\ content_answer.ok

DownloadIssued == \E i \in 1..Len(net) : net[i].endpoint = "media_url"

\* C11: the download request is issued only after the metadata request, and
\* only when that one succeeded and returned both url and mime_type; a failure
\* of either phase reaches the caller as exactly one error (one exception, one
\* log row) and no asset, and without a failure the asset is returned.
MediaTwoPhase ==
    MetaMediaCalled =>
        /\ Len(net) >= 1 /\ net[1] = MetadataRequest(media_id)
        /\ DownloadIssued => (MetadataComplete /\ Len(net) = 2
                              /\ net[2] = DownloadRequest(meta_answer.body.json.url))
        /\ MetadataComplete => DownloadIssued
        /\ (~MetadataComplete \/ ~DownloadSucceeded) =>
               /\ result.kind \in {"raising", "raised"}
               /\ result.exc.type = "ValidationError"
               /\ Len(log) = 1
        /\ (MetadataComplete /\ DownloadSucceeded) =>
               /\ result.kind = "returned"
               /\ result.value.file_data = content_answer.body.content
               /\ log = <<>>

MediaTwoPhaseWitness ==
    /\ MetaMediaCalled /\ pc = "done"
    /\ MetadataComplete /\ ~DownloadSucceeded
    /\ Len(net) = 2
    /\ result.kind = "raised"
    /\ result.exc.title = "WhatsApp Media Download Error"

\* C12: the Exotel adapter answers every get_media_asset call with an
\* unsupported-operation error and never returns normally.
ExotelMediaUnsupported ==
    (settings.provider = "Exotel" /\ pc # "idle") => result.kind \in {"raising", "raised"}


\* the metadata request succeeded with a url, and so did the download
MediaFetched ==
    /\ MetaMediaCalled /\ pc = "done"
    /\ meta_answer.received /\ meta_answer.ok
    /\ "json" \in DOMAIN meta_answer.body
    /\ "url" \in DOMAIN meta_answer.body.json
    /\ DownloadSucceeded

HasSlash(mime) == \E i \in 1..Len(mime) : mime[i] = "/"

\* ext is what follows the last '/' of mime
IsAfterLastSlash(ext, mime) ==
    \E k \in 1..Len(mime) :
        /\ mime[k] = "/"
        /\ ext = SubSeq(mime, k + 1, Len(mime))
        /\ \A i \in 1..Len(ext) : ext[i] # "/"

MimeAbsent == "mime_type" \notin DOMAIN meta_answer.body.json

\* C15 as stated: a fetch returns an asset whose file_extension is what follows
\* the last '/' of mime_type, and "bin" when mime_type is absent or has no '/'.
MediaExtensionAsStated ==
    MediaFetched =>
        /\ result.kind = "returned"
        /\ IF MimeAbsent \/ ~HasSlash(meta_answer.body.json.mime_type)
           THEN result.value.file_extension = Bin
           ELSE IsAfterLastSlash(result.value.file_extension,
                                 meta_answer.body.json.mime_type)

\* C15: with a non-empty mime_type the fetch returns an asset whose
\* file_extension is what follows the last '/' of mime_type, and "bin" when
\* mime_type has no '/'; with mime_type absent or empty the fetch raises
\* "WhatsApp Media Data Missing" and returns no asset.
MediaExtension ==
    MediaFetched =>
        IF MimeAbsent \/ meta_answer.body.json.mime_type = <<>>
        THEN /\ result.kind = "raised"
             /\ result.exc.title = "WhatsApp Media Data Missing"
        ELSE /\ result.kind = "returned"
             /\ result.value.mime_type = meta_answer.body.json.mime_type
             /\ IF HasSlash(meta_answer.body.json.mime_type)
                THEN IsAfterLastSlash(result.value.file_extension,
                                      meta_answer.body.json.mime_type)
                ELSE result.value.file_extension = Bin

MediaExtensionWitness ==
    /\ MediaFetched
    /\ meta_answer.body.json = [url |-> "https://cdn/m1", mime_type |-> MimeTwoSlashes,
                                id |-> "m1"]
    /\ result.kind = "returned"
    /\ result.value.file_extension = <<"c">>

====
